---- MODULE Spec2Model ----
(***************************************************************************)
(* Model of the altrion front end's session layer:                         *)
(*   - the auth store (src/src/store/authStore.ts): a zustand store        *)
(*     wrapped in immer and persist, saved to localStorage under the key   *)
(*     'altrion-auth';                                                     *)
(*   - the two route guards (src/src/components/routing/ProtectedRoute.tsx)*)
(*   - the platform service (src/unnamed/part_000).                        *)
(*                                                                         *)
(* JavaScript values are tagged records, so that null, undefined, strings  *)
(* and objects can be compared with one another; booleans and numbers are  *)
(* TLA+ booleans and integers.  Text kept in localStorage is a sequence of *)
(* JSON tokens produced by JSONstringify and read back by JSONparse.       *)
(***************************************************************************)
EXTENDS Integers, Sequences, FiniteSets, TLC

VARIABLES
    state,          \* the store's AuthState (authStore.ts:6-14)
    localStorage,   \* window.localStorage: key -> stored text
    last,           \* the last operation performed, its arguments and the state before it
    call            \* the platform-service call in flight, or its outcome

vars == <<state, localStorage, last, call>>

-----------------------------------------------------------------------------
(* Bounds of the model *)

NumUsers  == 2      \* distinct user objects a caller may pass
NumTokens == 2      \* distinct non-empty token strings
NumErrors == 1      \* distinct non-empty error messages
NumPaths  == 2      \* distinct application paths besides the named routes
MaxPlatforms == 2   \* longest list of platforms the backend answers with
MaxConnected == 2   \* longest list of connected platforms the backend answers with
MaxAccounts  == 2   \* most accounts under one connected platform

-----------------------------------------------------------------------------
(* JavaScript values *)

Null      == [t |-> "null"]
Undefined == [t |-> "undefined"]
Str(s)    == [t |-> "string", v |-> s]
Obj(f)    == [t |-> "object", v |-> f]
Arr(q)    == [t |-> "array", v |-> q]

\* !!v : null, undefined and the empty string are falsy; objects and
\* non-empty strings are truthy.
Truthy(v) ==
    CASE v.t = "null"      -> FALSE
      [] v.t = "undefined" -> FALSE
      [] v.t = "string"    -> v.v # ""
      [] OTHER             -> TRUE

\* a || b
OrOr(a, b) == IF Truthy(a) THEN a ELSE b

\* a ?. key  (optional chaining on a value that may be null or undefined)
OptGet(a, key) ==
    IF a.t = "object" /\ key \in DOMAIN a.v THEN a.v[key] ELSE Undefined

-----------------------------------------------------------------------------
(* Inputs *)

Users  == { Obj([id |-> Str("u" \o ToString(i)), email |-> Str("m" \o ToString(i))]) :
            i \in 1..NumUsers }
Tokens == { Str("tok" \o ToString(i)) : i \in 1..NumTokens }
Errors == { Str("err" \o ToString(i)) : i \in 1..NumErrors }

UserOrNull  == Users \cup {Null}
TokenOrNull == Tokens \cup {Str(""), Null}
ErrorOrNull == Errors \cup {Str(""), Null}

-----------------------------------------------------------------------------
(* JSON text: a sequence of tokens.  A string literal is the token "str"   *)
(* followed by its content; an object is "{" members "}" with each member  *)
(* a key (a string literal) and a value; JSON.stringify leaves out the     *)
(* members whose value is undefined.                                       *)


\* the members of the objects of this model, in the order the code writes them
KeyOrder == <<"state", "version", "user", "token", "isAuthenticated", "isLoading",
              "error", "hasCompletedOnboarding", "justSignedUp", "id", "email">>
BooleanKeys == {"isAuthenticated", "isLoading", "hasCompletedOnboarding", "justSignedUp"}
NumberKeys  == {"version"}

RECURSIVE JSONstringify(_)
RECURSIVE StringifyMembers(_, _)

\* the members of the object f whose keys are KeyOrder[i], KeyOrder[i+1], ...
StringifyMembers(f, i) ==
    IF i > Len(KeyOrder) THEN <<>>
    ELSE LET k == KeyOrder[i]
             m == IF k \notin DOMAIN f THEN <<>>
                  ELSE IF k \in BooleanKeys
                       THEN <<"str", k, IF f[k] THEN "true" ELSE "false">>
                  ELSE IF k \in NumberKeys THEN <<"str", k, ToString(f[k])>>
                  ELSE IF f[k].t = "undefined" THEN <<>>
                  ELSE <<"str", k>> \o JSONstringify(f[k])
         IN  m \o StringifyMembers(f, i + 1)

JSONstringify(v) ==
    CASE v.t = "null"   -> <<"null">>
      [] v.t = "string" -> <<"str", v.v>>
      [] v.t = "object" -> <<"{">> \o StringifyMembers(v.v, 1) \o <<"}">>

Digits == 0..9

RECURSIVE ParseValue(_, _)
RECURSIVE ParseMembers(_, _, _)

\* the members from position i up to the closing "}", added to acc
ParseMembers(toks, i, acc) ==
    IF toks[i] = "}" THEN [v |-> Obj(acc), next |-> i + 1]
    ELSE LET k == toks[i + 1]                 \* toks[i] = "str"
             r == ParseValue(toks, i + 2)
         IN  ParseMembers(toks, r.next, (k :> r.v) @@ acc)

\* the value that starts at position i, and the position after it
ParseValue(toks, i) ==
    CASE toks[i] = "null"  -> [v |-> Null,  next |-> i + 1]
      [] toks[i] = "true"  -> [v |-> TRUE,  next |-> i + 1]
      [] toks[i] = "false" -> [v |-> FALSE, next |-> i + 1]
      [] toks[i] = "str"   -> [v |-> Str(toks[i + 1]), next |-> i + 2]
      [] toks[i] = "{"     -> ParseMembers(toks, i + 1, <<>>)
      [] OTHER             -> [v |-> CHOOSE n \in Digits : ToString(n) = toks[i],
                               next |-> i + 1]

JSONparse(text) == ParseValue(text, 1).v

-----------------------------------------------------------------------------
(* The auth store: src/src/store/authStore.ts *)

initialState ==
    [ user                   |-> Null,
      token                  |-> Null,
      isAuthenticated        |-> FALSE,
      isLoading              |-> FALSE,
      error                  |-> Null,
      hasCompletedOnboarding |-> FALSE,
      justSignedUp           |-> FALSE ]

\* setUser that forgets the flag
setUser_userOnly(s, user) == [s EXCEPT !.user = user]

\* setUser that treats a null user as the end of the session
setUser_nullResets(s, user) ==
    IF user = Null
    THEN [s EXCEPT !.user = Null, !.isAuthenticated = FALSE,
                   !.hasCompletedOnboarding = FALSE]
    ELSE [s EXCEPT !.user = user, !.isAuthenticated = TRUE]

setUser(s, user) ==
    [s EXCEPT !.user = user, !.isAuthenticated = Truthy(user)]

\* setToken that ends the session when the token is taken away
setToken_nullSignsOut(s, token) ==
    IF token = Null
    THEN [s EXCEPT !.token = Null, !.isAuthenticated = FALSE]
    ELSE [s EXCEPT !.token = token]

setToken(s, token) == [s EXCEPT !.token = token]

setLoading(s, loading) == [s EXCEPT !.isLoading = loading]

setError(s, error) == [s EXCEPT !.error = error]

\* login that starts from a clean signup flag
login_resetsSignup(s, user, token) ==
    [s EXCEPT !.user = user, !.token = token, !.isAuthenticated = TRUE,
              !.error = Null, !.justSignedUp = FALSE]

\* login that leaves the last error in place
login_keepsError(s, user, token) ==
    [s EXCEPT !.user = user, !.token = token, !.isAuthenticated = TRUE]

login(s, user, token) ==
    [s EXCEPT !.user = user, !.token = token, !.isAuthenticated = TRUE,
              !.error = Null]

\* logout as a reset of the whole state
logout_resetsAll(s) == initialState

logout(s) ==
    [s EXCEPT !.user = Null, !.token = Null, !.isAuthenticated = FALSE,
              !.error = Null, !.hasCompletedOnboarding = FALSE,
              !.justSignedUp = FALSE]

clearError(s) == [s EXCEPT !.error = Null]

completeOnboarding(s) == [s EXCEPT !.hasCompletedOnboarding = TRUE]

setJustSignedUp(s, value) == [s EXCEPT !.justSignedUp = value]

\* Selectors
selectUser(s)            == s.user
selectIsAuthenticated(s) == s.isAuthenticated
selectIsLoading(s)       == s.isLoading
selectError(s)           == s.error

\* persist options
persistName    == "altrion-auth"
persistVersion == 0

\* partialize that leaves the onboarding flag out
partialize_noOnboarding(s) ==
    [ user |-> s.user, token |-> s.token, isAuthenticated |-> s.isAuthenticated ]

\* no partialize: the whole state is stored
partialize_whole(s) == s

partialize(s) ==
    [ user                   |-> s.user,
      token                  |-> s.token,
      isAuthenticated        |-> s.isAuthenticated,
      hasCompletedOnboarding |-> s.hasCompletedOnboarding ]

\* persist's setItem: the partialized state and the version, as JSON text
\* under the store's name
StorageValue(s) ==
    JSONstringify(Obj([state |-> Obj(partialize(s)), version |-> persistVersion]))

setItem(storage, s) ==
    [k \in DOMAIN storage \cup {persistName} |->
        IF k = persistName THEN StorageValue(s) ELSE storage[k]]

\* persist's hydration: the stored state, when there is one of this version,
\* is merged over the state the store was created with ({...current, ...persisted})
merge(persisted, current) == persisted @@ current

hydrate(storage, current) ==
    IF persistName \notin DOMAIN storage THEN current
    ELSE LET item == JSONparse(storage[persistName])
         IN  IF OptGet(item, "version") = persistVersion
             THEN merge(item.v.state.v, current)
             ELSE current

-----------------------------------------------------------------------------
(* The route guards: src/src/components/routing/ProtectedRoute.tsx *)

\* ROUTES of '@/constants', by name: the guards only pass them on
ROUTES_LOGIN      == Str("ROUTES.LOGIN")
ROUTES_DASHBOARD  == Str("ROUTES.DASHBOARD")
ROUTES_ONBOARDING == Str("ROUTES.ONBOARDING")

\* React elements
Navigate(props) == [type |-> "Navigate", props |-> props]
Fragment(children) == [type |-> "Fragment", children |-> children]

\* a parameter's default value applies when the property is undefined
Default(v, d) == IF v = Undefined THEN d ELSE v

\* ProtectedRoute that redirects without the return URL
ProtectedRoute_noFrom(props, s, location) ==
    IF ~ selectIsAuthenticated(s)
    THEN Navigate([to      |-> Default(props.redirectTo, ROUTES_LOGIN),
                   state   |-> Null,
                   replace |-> TRUE])
    ELSE Fragment(props.children)

\* ProtectedRoute that asks for a token instead of the flag
ProtectedRoute_byToken(props, s, location) ==
    IF ~ Truthy(s.token)
    THEN Navigate([to      |-> Default(props.redirectTo, ROUTES_LOGIN),
                   state   |-> Obj([from |-> location.pathname]),
                   replace |-> TRUE])
    ELSE Fragment(props.children)

ProtectedRoute(props, s, location) ==
    LET redirectTo      == Default(props.redirectTo, ROUTES_LOGIN)
        isAuthenticated == selectIsAuthenticated(s)
    IN  IF ~ isAuthenticated
        THEN Navigate([to      |-> redirectTo,
                       state   |-> Obj([from |-> location.pathname]),
                       replace |-> TRUE])
        ELSE Fragment(props.children)

\* PublicOnlyRoute that looks at the return URL before the signup flag
PublicOnlyRoute_fromFirst(props, s, location) ==
    LET redirectTo == Default(props.redirectTo, ROUTES_DASHBOARD)
        from       == OptGet(location.state, "from")
    IN  IF selectIsAuthenticated(s)
        THEN IF Truthy(from) THEN Navigate([to |-> from, replace |-> TRUE])
             ELSE IF s.justSignedUp
                  THEN Navigate([to |-> ROUTES_ONBOARDING, replace |-> TRUE])
                  ELSE Navigate([to |-> redirectTo, replace |-> TRUE])
        ELSE Fragment(props.children)

\* PublicOnlyRoute that ignores the return URL
PublicOnlyRoute_noFrom(props, s, location) ==
    LET redirectTo == Default(props.redirectTo, ROUTES_DASHBOARD)
    IN  IF selectIsAuthenticated(s)
        THEN IF s.justSignedUp
             THEN Navigate([to |-> ROUTES_ONBOARDING, replace |-> TRUE])
             ELSE Navigate([to |-> redirectTo, replace |-> TRUE])
        ELSE Fragment(props.children)

PublicOnlyRoute(props, s, location) ==
    LET redirectTo      == Default(props.redirectTo, ROUTES_DASHBOARD)
        isAuthenticated == selectIsAuthenticated(s)
        justSignedUp    == s.justSignedUp
    IN  IF isAuthenticated
        THEN IF justSignedUp
             THEN Navigate([to |-> ROUTES_ONBOARDING, replace |-> TRUE])
             ELSE LET from == OptGet(location.state, "from")
                  IN  Navigate([to |-> OrOr(from, redirectTo), replace |-> TRUE])
        ELSE Fragment(props.children)

\* The store state after a render of a guard: the guards read the store
\* through selectors and call none of its actions.
ProtectedRouteEffect(props, s, location) == s

\* PublicOnlyRoute that consumes the signup flag when it redirects on it
PublicOnlyRouteEffect_consumesFlag(props, s, location) ==
    IF selectIsAuthenticated(s) /\ s.justSignedUp
    THEN setJustSignedUp(s, FALSE)
    ELSE s

PublicOnlyRouteEffect(props, s, location) == s

\* What the guards are rendered with
Children == Str("children")
Paths    == { Str("/page" \o ToString(i)) : i \in 1..NumPaths }

\* the redirectTo property: left out, or a path
RedirectTos == {Undefined} \cup Paths \cup {ROUTES_ONBOARDING}

\* location.state: null, an object without from, or an object with from
LocationStates ==
    {Null, Obj([scroll |-> Str("top")]), Obj([from |-> Str("")])}
        \cup { Obj([from |-> p]) : p \in Paths }

-----------------------------------------------------------------------------
(* The platform service: src/unnamed/part_000 *)

\* Completions of a function body
Return(v)   == [kind |-> "return", value |-> v, log |-> <<>>]
Throw(e)    == [kind |-> "throw", error |-> e, log |-> <<>>]
Logged(c, m) == [c EXCEPT !.log = Append(@, m)]

TypeError == Str("TypeError")

\* `const { data } = await api.post(...)`: the awaited response, or the
\* rejection thrown at the await
Await(response) ==
    IF response.ok THEN Return(response.data) ELSE Throw(response.error)

\* the body of the try block of the two connect operations; reading a
\* property of data is a TypeError when the response carried no body
ConnectBody(response) ==
    LET got == Await(response)
    IN  IF got.kind = "throw" THEN got
        ELSE IF got.value.t # "object" THEN Throw(TypeError)
        ELSE Return(Obj([ platformId |-> OptGet(got.value, "platform_id"),
                          status     |-> OptGet(got.value, "status"),
                          message    |-> OptGet(got.value, "message") ]))

ConnectUrl(platformId) == "/platforms/" \o platformId.v \o "/connect"

connectWithCredentialsRequest(platformId, credentials) ==
    [ method |-> "POST",
      url    |-> ConnectUrl(platformId),
      body   |-> Obj([credentials |-> credentials]) ]

\* connectWithCredentials that logs and throws again, as disconnect does
connectWithCredentials_rethrows(platformId, credentials, response) ==
    LET body == ConnectBody(response)
    IN  IF body.kind = "throw"
        THEN Logged(Throw(body.error), "Failed to connect platform:")
        ELSE body

\* the completion of connectWithCredentials once the request has settled
connectWithCredentials(platformId, credentials, response) ==
    LET body == ConnectBody(response)
    IN  IF body.kind = "throw"
        THEN Logged(Return(Obj([ platformId |-> platformId,
                                 status     |-> Str("error"),
                                 message    |-> Str("Failed to connect. Please check your credentials.") ])),
                    "Failed to connect platform:")
        ELSE body

connectWithApiKeyRequest(platformId, apiCredentials) ==
    [ method |-> "POST",
      url    |-> ConnectUrl(platformId),
      body   |-> Obj([ api_key    |-> OptGet(apiCredentials, "apiKey"),
                       api_secret |-> OptGet(apiCredentials, "apiSecret") ]) ]

\* connectWithApiKey that answers a failure with the credentials message
connectWithApiKey_wrongMessage(platformId, apiCredentials, response) ==
    connectWithCredentials(platformId, apiCredentials, response)

\* the completion of connectWithApiKey once the request has settled
connectWithApiKey(platformId, apiCredentials, response) ==
    LET body == ConnectBody(response)
    IN  IF body.kind = "throw"
        THEN Logged(Return(Obj([ platformId |-> platformId,
                                 status     |-> Str("error"),
                                 message    |-> Str("Invalid API credentials.") ])),
                    "Failed to connect platform with API key:")
        ELSE body

\* platforms.filter(platform => platform[key] === value)
FilterBy(q, key, value) == SelectSeq(q, LAMBDA platform : OptGet(platform, key) = value)

\* a backend platform as a Platform
ToPlatform(platform) ==
    Obj([ id       |-> OptGet(platform, "id"),
          name     |-> OptGet(platform, "name"),
          icon     |-> OptGet(platform, "icon"),
          category |-> OptGet(platform, "category") ])

\* data.map(platform => ({...}))
MapToPlatforms(data) == [i \in 1..Len(data) |-> ToPlatform(data[i])]

fallbackWallet ==
    Obj([id |-> Str("wallet"), name |-> Str("Wallet"), icon |-> Str("/wallet.svg"),
         category |-> Str("crypto")])

fallbackPlaid ==
    Obj([id |-> Str("plaid"), name |-> Str("Plaid"), icon |-> Str("/plaid.svg"),
         category |-> Str("bank")])

getPlatformsRequest == [method |-> "GET", url |-> "/platforms"]

\* the groups built from the platforms of a successful fetch
GroupPlatforms_byCategory(platforms) ==
    LET walletPlatforms == FilterBy(platforms, "category", Str("crypto"))
        bankPlatforms   == FilterBy(platforms, "category", Str("bank"))
    IN  Obj([ crypto  |-> Arr(IF Len(walletPlatforms) > 0 THEN walletPlatforms
                              ELSE <<fallbackWallet>>),
              banks   |-> Arr(bankPlatforms),
              brokers |-> Arr(<<>>) ])

GroupPlatforms(platforms) ==
    LET walletPlatforms == FilterBy(platforms, "id", Str("wallet"))
        bankPlatforms   == FilterBy(platforms, "id", Str("plaid"))
        cryptoPlatforms == IF Len(walletPlatforms) > 0 THEN walletPlatforms
                           ELSE <<fallbackWallet>>
    IN  Obj([ crypto  |-> Arr(cryptoPlatforms),
              banks   |-> Arr(bankPlatforms),
              brokers |-> Arr(<<>>) ])

\* the try block of getPlatforms; data.map is a TypeError when the response
\* carried no array
GetPlatformsBody(response) ==
    LET got == Await(response)
    IN  IF got.kind = "throw" THEN got
        ELSE IF got.value.t # "array" THEN Throw(TypeError)
        ELSE Return(GroupPlatforms(MapToPlatforms(got.value.v)))

\* the result getPlatforms falls back to
PlatformsFallback_walletOnly ==
    Obj([ crypto  |-> Arr(<<fallbackWallet>>),
          banks   |-> Arr(<<>>),
          brokers |-> Arr(<<>>) ])

PlatformsFallback ==
    Obj([ crypto  |-> Arr(<<fallbackWallet>>),
          banks   |-> Arr(<<fallbackPlaid>>),
          brokers |-> Arr(<<>>) ])

\* the completion of getPlatforms once the request has settled
getPlatforms(response) ==
    LET body == GetPlatformsBody(response)
    IN  IF body.kind = "throw"
        THEN Logged(Return(PlatformsFallback), "Failed to fetch platforms:")
        ELSE body

getPlaidLinkTokenRequest == [method |-> "POST", url |-> "/plaid/link-token"]

\* the completion of getPlaidLinkToken: no try block, so the rejection and
\* the TypeError on a missing body go to the caller
getPlaidLinkToken(response) ==
    LET got == Await(response)
    IN  IF got.kind = "throw" THEN got
        ELSE IF got.value.t # "object" THEN Throw(TypeError)
        ELSE Return(OptGet(got.value, "link_token"))

disconnectRequest(platformId) ==
    [method |-> "DELETE", url |-> "/platforms/" \o platformId.v \o "/connection"]

\* disconnect that logs the failure and returns
disconnect_swallows(platformId, response) ==
    LET got == Await(response)
    IN  IF got.kind = "throw"
        THEN Logged(Return(Undefined), "Failed to disconnect platform:")
        ELSE Return(Undefined)

\* the completion of disconnect: the catch logs and throws the error again
disconnect(platformId, response) ==
    LET got == Await(response)
    IN  IF got.kind = "throw"
        THEN Logged(Throw(got.error), "Failed to disconnect platform:")
        ELSE Return(Undefined)

\* simulateDelay is used by verifyConnection and syncPlatform but neither
\* imported nor defined in the file: evaluating the call is a ReferenceError
\* unless the name is bound outside the module as a global
ReferenceError == Str("ReferenceError: simulateDelay is not defined")

verifyDelayMs == 500
syncDelayMs   == 2000

simulateDelayRequest(ms) == [method |-> "TIMER", url |-> "simulateDelay", ms |-> ms]

\* the completion of verifyConnection, given that of `await simulateDelay(500)`
verifyConnection(platformId, delayed) ==
    LET got == Await(delayed)
    IN  IF got.kind = "throw" THEN got
        ELSE Return(Obj([ platformId |-> platformId,
                          status     |-> Str("success"),
                          message    |-> Str("Connection verified") ]))

\* the completion of syncPlatform, given that of `await simulateDelay(2000)`
\* and the time at which it resumes
syncPlatform(platformId, delayed, now) ==
    LET got == Await(delayed)
    IN  IF got.kind = "throw" THEN got
        ELSE Return(Obj([syncedAt |-> now]))

getConnectedPlatformsRequest == [method |-> "GET", url |-> "/platforms/connected"]

\* the record pushed for an account, with the platform's own id and name
ConnectedPlatform_ofPlatform(item, account) ==
    Obj([ id       |-> OptGet(OptGet(item, "platform"), "id"),
          name     |-> OptGet(OptGet(item, "platform"), "name"),
          icon     |-> OptGet(OptGet(item, "platform"), "icon"),
          category |-> OptGet(OptGet(item, "platform"), "category") ])

\* the record pushed for an account of an item
ConnectedPlatform(item, account) ==
    Obj([ id       |-> OptGet(account, "id"),
          name     |-> OptGet(account, "name"),
          icon     |-> OptGet(OptGet(item, "platform"), "icon"),
          category |-> OptGet(OptGet(item, "platform"), "category") ])

\* item.accounts.forEach(account => platforms.push(...)), from account j on
RECURSIVE PushAccounts(_, _, _)
PushAccounts(platforms, item, j) ==
    LET accounts == OptGet(item, "accounts").v
    IN  IF j > Len(accounts) THEN platforms
        ELSE PushAccounts(Append(platforms, ConnectedPlatform(item, accounts[j])), item, j + 1)

\* data.forEach(item => ...), from item k on
RECURSIVE PushItems(_, _, _)
PushItems(platforms, data, k) ==
    IF k > Len(data) THEN platforms
    ELSE PushItems(PushAccounts(platforms, data[k], 1), data, k + 1)

\* the try block of getConnectedPlatforms; data.forEach is a TypeError when
\* the response carried no array
GetConnectedPlatformsBody(response) ==
    LET got == Await(response)
    IN  IF got.kind = "throw" THEN got
        ELSE IF got.value.t # "array" THEN Throw(TypeError)
        ELSE Return(Arr(PushItems(<<>>, got.value.v, 1)))

\* the completion of getConnectedPlatforms once the request has settled
getConnectedPlatforms(response) ==
    LET body == GetConnectedPlatformsBody(response)
    IN  IF body.kind = "throw"
        THEN Logged(Return(Arr(<<>>)), "Failed to fetch connected platforms:")
        ELSE body

\* What the service is called with, and what the backend may answer
PlatformIds   == {Str("wallet"), Str("plaid")}
Credentials   == {Obj([username |-> Str("amy"), password |-> Str("pw")]),
                  Obj([apiKey |-> Str("key")])}
ConnectionStatuses == {Str("pending"), Str("connecting"), Str("success"), Str("error")}

BackendConnectionResponses ==
    { Obj([platform_id |-> p, status |-> st, message |-> m, account_id |-> a]) :
        p \in PlatformIds, st \in ConnectionStatuses,
        m \in {Undefined, Str("done")}, a \in {Undefined, Str("acc1")} }

\* a settled request: fulfilled with a body (possibly none), or rejected
ConnectResponses ==
    { [ok |-> TRUE, data |-> d] : d \in BackendConnectionResponses \cup {Undefined} }
        \cup { [ok |-> FALSE, error |-> e] :
                 e \in {Str("Network Error"), Str("Request failed with status code 401")} }

ApiKeyCredentials ==
    { Obj([apiKey |-> Str("key"), apiSecret |-> s]) : s \in {Str("secret"), Str("")} }

\* platforms the backend may list: two records with the id 'wallet', one
\* 'plaid', a crypto exchange and a broker; a record may carry a member that
\* Platform does not have
BackendPlatforms ==
    { Obj([id |-> Str("wallet"), name |-> Str("Wallet"), icon |-> Str("/wallet.svg"),
           category |-> Str("crypto")]),
      Obj([id |-> Str("wallet"), name |-> Str("MetaMask"), icon |-> Str("/mm.svg"),
           category |-> Str("crypto"), beta |-> Str("yes")]),
      Obj([id |-> Str("plaid"), name |-> Str("Plaid"), icon |-> Str("/plaid.svg"),
           category |-> Str("bank")]),
      Obj([id |-> Str("binance"), name |-> Str("Binance"), icon |-> Str("/bnb.svg"),
           category |-> Str("crypto")]),
      Obj([id |-> Str("ibkr"), name |-> Str("IBKR"), icon |-> Str("/ibkr.svg"),
           category |-> Str("broker")]) }

SeqsUpTo(S, n) == UNION { [1..k -> S] : k \in 0..n }

RequestErrors == {Str("Network Error"), Str("Request failed with status code 401")}

PlatformsResponses ==
    { [ok |-> TRUE, data |-> d] :
        d \in { Arr(q) : q \in SeqsUpTo(BackendPlatforms, MaxPlatforms) } \cup {Undefined} }
        \cup { [ok |-> FALSE, error |-> e] : e \in RequestErrors }

LinkTokenResponses ==
    { [ok |-> TRUE, data |-> d] :
        d \in { Obj([success |-> Str("true"), link_token |-> Str("link-sandbox-1")]),
                Undefined } }
        \cup { [ok |-> FALSE, error |-> e] : e \in RequestErrors }

DisconnectResponses ==
    { [ok |-> TRUE, data |-> Undefined] }
        \cup { [ok |-> FALSE, error |-> e] : e \in RequestErrors }

\* `await simulateDelay(ms)`: the timer runs out, or the name is unbound
DelayOutcomes ==
    { [ok |-> TRUE, data |-> Undefined], [ok |-> FALSE, error |-> ReferenceError] }

\* new Date().toISOString()
IsoDates == {Str("2025-01-01T00:00:00.000Z"), Str("2025-01-01T00:00:02.000Z")}

\* accounts and connected platforms the backend may answer with
BackendAccounts ==
    { Obj([id |-> Str("acc1"), name |-> Str("Checking"), last_synced_at |-> Null,
           error_message |-> Null]),
      Obj([id |-> Str("acc2"), name |-> Str("Savings"),
           last_synced_at |-> Str("2025-01-01T00:00:00.000Z"),
           error_message |-> Str("stale")]) }

ConnectedItems ==
    { Obj([platform |-> p, accounts |-> Arr(q)]) :
        p \in { x \in BackendPlatforms : x.v.name \in {Str("Plaid"), Str("MetaMask")} },
        q \in SeqsUpTo(BackendAccounts, MaxAccounts) }

ConnectedResponses ==
    { [ok |-> TRUE, data |-> d] :
        d \in { Arr(q) : q \in SeqsUpTo(ConnectedItems, MaxConnected) } \cup {Undefined} }
        \cup { [ok |-> FALSE, error |-> e] : e \in RequestErrors }

-----------------------------------------------------------------------------
(* Behaviour *)

NoStorage == [k \in {} |-> <<>>]
NoCall    == [pc |-> "idle", op |-> "none"]

\* The store right after its module is first evaluated in a browser with
\* nothing stored: hydration found no item.  Whether hydration itself then
\* writes the item depends on the persist middleware's version.
Init ==
    /\ state = hydrate(NoStorage, initialState)
    /\ localStorage \in {NoStorage, setItem(NoStorage, state)}
    /\ last = [op |-> "create"]
    /\ call = NoCall

\* set(fn) through persist: the new state, then setItem
Set(op, args, new) ==
    /\ state' = new
    /\ localStorage' = setItem(localStorage, new)
    /\ last' = [op |-> op, args |-> args, pre |-> state]
    /\ UNCHANGED call

SetUser ==
    \E user \in UserOrNull : Set("setUser", [user |-> user], setUser(state, user))

SetToken ==
    \E token \in TokenOrNull : Set("setToken", [token |-> token], setToken(state, token))

SetLoading ==
    \E loading \in BOOLEAN :
        Set("setLoading", [loading |-> loading], setLoading(state, loading))

SetError ==
    \E error \in ErrorOrNull : Set("setError", [error |-> error], setError(state, error))

Login ==
    \E user \in Users, token \in Tokens \cup {Str("")} :
        Set("login", [user |-> user, token |-> token], login(state, user, token))

Logout == Set("logout", <<>>, logout(state))

ClearError == Set("clearError", <<>>, clearError(state))

CompleteOnboarding == Set("completeOnboarding", <<>>, completeOnboarding(state))

SetJustSignedUp ==
    \E value \in BOOLEAN :
        Set("setJustSignedUp", [value |-> value], setJustSignedUp(state, value))

\* The page is loaded again: the module is evaluated anew and the store is
\* created from initialState and hydrated from what localStorage holds.
Reload ==
    /\ state' = hydrate(localStorage, initialState)
    /\ localStorage' \in {localStorage, setItem(localStorage, state')}
    /\ last' = [op |-> "reload", args |-> <<>>, pre |-> state]
    /\ UNCHANGED call

\* A render of <ProtectedRoute> at some path
RenderProtectedRoute ==
    \E redirectTo \in RedirectTos, pathname \in Paths :
        LET props    == [children |-> Children, redirectTo |-> redirectTo]
            location == [pathname |-> pathname, state |-> Null]
        IN  /\ last' = [op |-> "ProtectedRoute", props |-> props, location |-> location,
                        out |-> ProtectedRoute(props, state, location)]
            /\ state' = ProtectedRouteEffect(props, state, location)
            /\ UNCHANGED <<localStorage, call>>

\* A render of <PublicOnlyRoute> reached with some navigation state
RenderPublicOnlyRoute ==
    \E redirectTo \in RedirectTos, locState \in LocationStates :
        LET props    == [children |-> Children, redirectTo |-> redirectTo]
            location == [pathname |-> ROUTES_LOGIN, state |-> locState]
        IN  /\ last' = [op |-> "PublicOnlyRoute", props |-> props, location |-> location,
                        out |-> PublicOnlyRoute(props, state, location)]
            /\ state' = PublicOnlyRouteEffect(props, state, location)
            /\ UNCHANGED <<localStorage, call>>

Next ==
    \/ SetUser
    \/ SetToken
    \/ SetLoading
    \/ SetError
    \/ Login
    \/ Logout
    \/ ClearError
    \/ CompleteOnboarding
    \/ SetJustSignedUp
    \/ Reload
    \/ RenderProtectedRoute
    \/ RenderPublicOnlyRoute

Spec == Init /\ [][Next]_vars

\* The platform service on its own.  A call is made when none is awaiting
\* its response; the store is not involved.
CallConnectWithCredentials ==
    \E platformId \in PlatformIds, credentials \in Credentials :
        /\ call.pc # "await"
        /\ call' = [ pc      |-> "await",
                     op      |-> "connectWithCredentials",
                     args    |-> [platformId |-> platformId, credentials |-> credentials],
                     request |-> connectWithCredentialsRequest(platformId, credentials) ]
        /\ UNCHANGED <<state, localStorage, last>>

\* the call's completion: returned or thrown to the caller
Settled(response, completion) ==
    [ pc         |-> IF completion.kind = "return" THEN "returned" ELSE "thrown",
      op         |-> call.op,
      args       |-> call.args,
      request    |-> call.request,
      response   |-> response,
      completion |-> completion ]

SettleConnectWithCredentials ==
    \E response \in ConnectResponses :
        /\ call.pc = "await"
        /\ call.op = "connectWithCredentials"
        /\ call' = Settled(response,
                connectWithCredentials(call.args.platformId, call.args.credentials, response))
        /\ UNCHANGED <<state, localStorage, last>>

CallConnectWithApiKey ==
    \E platformId \in PlatformIds, apiCredentials \in ApiKeyCredentials :
        /\ call.pc # "await"
        /\ call' = [ pc      |-> "await",
                     op      |-> "connectWithApiKey",
                     args    |-> [platformId |-> platformId, apiCredentials |-> apiCredentials],
                     request |-> connectWithApiKeyRequest(platformId, apiCredentials) ]
        /\ UNCHANGED <<state, localStorage, last>>

SettleConnectWithApiKey ==
    \E response \in ConnectResponses :
        /\ call.pc = "await"
        /\ call.op = "connectWithApiKey"
        /\ call' = Settled(response,
                connectWithApiKey(call.args.platformId, call.args.apiCredentials, response))
        /\ UNCHANGED <<state, localStorage, last>>

CallGetPlatforms ==
    /\ call.pc # "await"
    /\ call' = [ pc      |-> "await",
                 op      |-> "getPlatforms",
                 args    |-> <<>>,
                 request |-> getPlatformsRequest ]
    /\ UNCHANGED <<state, localStorage, last>>

SettleGetPlatforms ==
    \E response \in PlatformsResponses :
        /\ call.pc = "await"
        /\ call.op = "getPlatforms"
        /\ call' = Settled(response, getPlatforms(response))
        /\ UNCHANGED <<state, localStorage, last>>

CallGetPlaidLinkToken ==
    /\ call.pc # "await"
    /\ call' = [ pc      |-> "await",
                 op      |-> "getPlaidLinkToken",
                 args    |-> <<>>,
                 request |-> getPlaidLinkTokenRequest ]
    /\ UNCHANGED <<state, localStorage, last>>

SettleGetPlaidLinkToken ==
    \E response \in LinkTokenResponses :
        /\ call.pc = "await"
        /\ call.op = "getPlaidLinkToken"
        /\ call' = Settled(response, getPlaidLinkToken(response))
        /\ UNCHANGED <<state, localStorage, last>>

CallDisconnect ==
    \E platformId \in PlatformIds :
        /\ call.pc # "await"
        /\ call' = [ pc      |-> "await",
                     op      |-> "disconnect",
                     args    |-> [platformId |-> platformId],
                     request |-> disconnectRequest(platformId) ]
        /\ UNCHANGED <<state, localStorage, last>>

SettleDisconnect ==
    \E response \in DisconnectResponses :
        /\ call.pc = "await"
        /\ call.op = "disconnect"
        /\ call' = Settled(response, disconnect(call.args.platformId, response))
        /\ UNCHANGED <<state, localStorage, last>>

CallVerifyConnection ==
    \E platformId \in PlatformIds :
        /\ call.pc # "await"
        /\ call' = [ pc      |-> "await",
                     op      |-> "verifyConnection",
                     args    |-> [platformId |-> platformId],
                     request |-> simulateDelayRequest(verifyDelayMs) ]
        /\ UNCHANGED <<state, localStorage, last>>

SettleVerifyConnection ==
    \E delayed \in DelayOutcomes :
        /\ call.pc = "await"
        /\ call.op = "verifyConnection"
        /\ call' = Settled(delayed, verifyConnection(call.args.platformId, delayed))
        /\ UNCHANGED <<state, localStorage, last>>

CallSyncPlatform ==
    \E platformId \in PlatformIds :
        /\ call.pc # "await"
        /\ call' = [ pc      |-> "await",
                     op      |-> "syncPlatform",
                     args    |-> [platformId |-> platformId],
                     request |-> simulateDelayRequest(syncDelayMs) ]
        /\ UNCHANGED <<state, localStorage, last>>

SettleSyncPlatform ==
    \E delayed \in DelayOutcomes, now \in IsoDates :
        /\ call.pc = "await"
        /\ call.op = "syncPlatform"
        /\ call' = Settled(delayed, syncPlatform(call.args.platformId, delayed, now))
        /\ UNCHANGED <<state, localStorage, last>>

CallGetConnectedPlatforms ==
    /\ call.pc # "await"
    /\ call' = [ pc      |-> "await",
                 op      |-> "getConnectedPlatforms",
                 args    |-> <<>>,
                 request |-> getConnectedPlatformsRequest ]
    /\ UNCHANGED <<state, localStorage, last>>

SettleGetConnectedPlatforms ==
    \E response \in ConnectedResponses :
        /\ call.pc = "await"
        /\ call.op = "getConnectedPlatforms"
        /\ call' = Settled(response, getConnectedPlatforms(response))
        /\ UNCHANGED <<state, localStorage, last>>

ServiceNext ==
    \/ CallConnectWithCredentials
    \/ SettleConnectWithCredentials
    \/ CallConnectWithApiKey
    \/ SettleConnectWithApiKey
    \/ CallGetPlatforms
    \/ SettleGetPlatforms
    \/ CallGetConnectedPlatforms
    \/ SettleGetConnectedPlatforms
    \/ CallGetPlaidLinkToken
    \/ SettleGetPlaidLinkToken
    \/ CallDisconnect
    \/ SettleDisconnect
    \/ CallVerifyConnection
    \/ SettleVerifyConnection
    \/ CallSyncPlatform
    \/ SettleSyncPlatform

ServiceSpec == Init /\ [][ServiceNext]_vars

-----------------------------------------------------------------------------
(* Properties of the auth store *)

StoreOps == {"setUser", "setToken", "setLoading", "setError", "login", "logout",
             "clearError", "completeOnboarding", "setJustSignedUp"}

\* C1: in every reachable state of the store (after any sequence of its
\* actions and of reloads from its own snapshot), isAuthenticated is true
\* exactly when user is not null.
C1_AuthenticatedIffUser ==
    state.isAuthenticated <=> (state.user # Null)

\* a reload that brought back a signed-in user
C1_Witness ==
    /\ last.op = "reload"
    /\ state.user # Null
    /\ state.isAuthenticated

\* C2: right after login(u, t) the state has isAuthenticated = true,
\* user = u, token = t and error = null.
C2_AfterLogin ==
    last.op = "login" =>
        /\ state.isAuthenticated = TRUE
        /\ state.user = last.args.user
        /\ state.token = last.args.token
        /\ state.error = Null

\* a login as another user while an error was set
C2_Witness ==
    /\ last.op = "login"
    /\ last.pre.error # Null
    /\ last.pre.user # Null
    /\ last.pre.user # state.user
    /\ last.pre.token # state.token

\* C3: right after logout() the fields user, token, isAuthenticated, error,
\* hasCompletedOnboarding and justSignedUp have their initial values and
\* isLoading has the value it had before the call.
C3_AfterLogout ==
    last.op = "logout" =>
        /\ state.user = Null
        /\ state.token = Null
        /\ state.isAuthenticated = FALSE
        /\ state.error = Null
        /\ state.hasCompletedOnboarding = FALSE
        /\ state.justSignedUp = FALSE
        /\ state.isLoading = last.pre.isLoading

\* a logout while loading, with every other field away from its default
C3_Witness ==
    /\ last.op = "logout"
    /\ last.pre.isLoading
    /\ state.isLoading
    /\ last.pre.user # Null
    /\ last.pre.token # Null
    /\ last.pre.error # Null
    /\ last.pre.hasCompletedOnboarding
    /\ last.pre.justSignedUp

\* C4: a reload reproduces user, token, isAuthenticated and
\* hasCompletedOnboarding as they were before it, and leaves isLoading false,
\* error null and justSignedUp false whatever they were.
C4_ReloadRoundTrip ==
    last.op = "reload" =>
        /\ state.user = last.pre.user
        /\ state.token = last.pre.token
        /\ state.isAuthenticated = last.pre.isAuthenticated
        /\ state.hasCompletedOnboarding = last.pre.hasCompletedOnboarding
        /\ state.isLoading = FALSE
        /\ state.error = Null
        /\ state.justSignedUp = FALSE

\* a reload of a state in which every field was away from its default
C4_Witness ==
    /\ last.op = "reload"
    /\ last.pre.user # Null
    /\ last.pre.token \in Tokens
    /\ last.pre.hasCompletedOnboarding
    /\ last.pre.isLoading
    /\ last.pre.error # Null
    /\ last.pre.justSignedUp

\* C5: after every store action localStorage holds, under 'altrion-auth', a
\* snapshot whose state is the current user, token, isAuthenticated and
\* hasCompletedOnboarding and nothing else; and whenever an item is stored
\* it is that snapshot.
C5_SnapshotIsProjection ==
    /\ last.op \in StoreOps => "altrion-auth" \in DOMAIN localStorage
    /\ "altrion-auth" \in DOMAIN localStorage =>
          JSONparse(localStorage["altrion-auth"]).v.state.v =
              [ user                   |-> state.user,
                token                  |-> state.token,
                isAuthenticated        |-> state.isAuthenticated,
                hasCompletedOnboarding |-> state.hasCompletedOnboarding ]

\* an action on a transient field, with the transient fields set
C5_Witness ==
    /\ last.op = "setLoading"
    /\ state.isLoading
    /\ state.error # Null
    /\ state.justSignedUp
    /\ state.user # Null
    /\ state.hasCompletedOnboarding

\* C6: once true, hasCompletedOnboarding stays true in every step that is
\* not a logout (the other actions and reload).
C6_OnboardingSticky ==
    [][ (state.hasCompletedOnboarding /\ last'.op # "logout")
            => state'.hasCompletedOnboarding ]_vars

\* the flag still set after setUser(null) and a reload
C6_Witness ==
    /\ last.op = "reload"
    /\ state.hasCompletedOnboarding
    /\ state.user = Null

\* C16: login leaves justSignedUp, hasCompletedOnboarding and isLoading as
\* they were before the call.
C16_LoginFrame ==
    last.op = "login" =>
        /\ state.justSignedUp = last.pre.justSignedUp
        /\ state.hasCompletedOnboarding = last.pre.hasCompletedOnboarding
        /\ state.isLoading = last.pre.isLoading

\* a login into a signed-out session that still carries the signup flag
C16_Witness ==
    /\ last.op = "login"
    /\ last.pre.user = Null
    /\ last.pre.justSignedUp
    /\ state.justSignedUp
    /\ last.pre.hasCompletedOnboarding
    /\ last.pre.isLoading

\* C17: setToken changes token and nothing else, so setToken(null) on an
\* authenticated session leaves isAuthenticated true; and setUser leaves
\* token as it was.
C17_SetTokenFrame ==
    /\ last.op = "setToken" =>
          /\ state.token = last.args.token
          /\ state.user = last.pre.user
          /\ state.isAuthenticated = last.pre.isAuthenticated
          /\ state.isLoading = last.pre.isLoading
          /\ state.error = last.pre.error
          /\ state.hasCompletedOnboarding = last.pre.hasCompletedOnboarding
          /\ state.justSignedUp = last.pre.justSignedUp
    /\ last.op = "setUser" => state.token = last.pre.token

\* setToken(null) on an authenticated session that had a token
C17_Witness ==
    /\ last.op = "setToken"
    /\ last.args.token = Null
    /\ last.pre.token \in Tokens
    /\ state.token = Null
    /\ state.isAuthenticated
    /\ state.user # Null

-----------------------------------------------------------------------------
(* Properties of the route guards *)

\* C7: ProtectedRoute, when isAuthenticated is false, is a Navigate to
\* redirectTo (ROUTES.LOGIN when the property is left out) with state
\* {from: the current path} and replace; when isAuthenticated is true it is
\* its children.
C7_ProtectedRoute ==
    last.op = "ProtectedRoute" =>
        IF ~ state.isAuthenticated
        THEN /\ last.out.type = "Navigate"
             /\ last.out.props.to = IF last.props.redirectTo = Undefined
                                    THEN ROUTES_LOGIN
                                    ELSE last.props.redirectTo
             /\ last.out.props.state = Obj([from |-> last.location.pathname])
             /\ last.out.props.replace = TRUE
        ELSE /\ last.out.type = "Fragment"
             /\ last.out.children = last.props.children

\* a signed-out visitor sent to the login route from a page
C7_Witness ==
    /\ last.op = "ProtectedRoute"
    /\ ~ state.isAuthenticated
    /\ last.props.redirectTo = Undefined
    /\ last.out.type = "Navigate"
    /\ last.out.props.to = ROUTES_LOGIN
    /\ last.out.props.state = Obj([from |-> Str("/page1")])

\* C8: PublicOnlyRoute, when isAuthenticated and justSignedUp are both true,
\* is a Navigate with replace to ROUTES.ONBOARDING, whatever the navigation
\* state and redirectTo are.
C8_PublicOnlyOnboarding ==
    (last.op = "PublicOnlyRoute" /\ state.isAuthenticated /\ state.justSignedUp) =>
        /\ last.out.type = "Navigate"
        /\ last.out.props.to = ROUTES_ONBOARDING
        /\ last.out.props.replace = TRUE

\* a fresh signup that arrives with a return URL and an explicit redirectTo
C8_Witness ==
    /\ last.op = "PublicOnlyRoute"
    /\ state.isAuthenticated
    /\ state.justSignedUp
    /\ last.location.state = Obj([from |-> Str("/page1")])
    /\ last.props.redirectTo = Str("/page2")
    /\ last.out.props.to = ROUTES_ONBOARDING

\* the return URL carried in navigation state: a non-empty from
HasReturnUrl(locState) ==
    /\ locState # Null
    /\ "from" \in DOMAIN locState.v
    /\ locState.v.from # Str("")

\* C9: PublicOnlyRoute, when isAuthenticated is true and justSignedUp false,
\* is a Navigate to the return URL of the navigation state when there is one
\* and else to redirectTo (ROUTES.DASHBOARD when left out); when
\* isAuthenticated is false it is its children, whatever justSignedUp is.
C9_PublicOnlyRoute ==
    last.op = "PublicOnlyRoute" =>
        /\ (state.isAuthenticated /\ ~ state.justSignedUp) =>
              /\ last.out.type = "Navigate"
              /\ last.out.props.to =
                    IF HasReturnUrl(last.location.state)
                    THEN last.location.state.v.from
                    ELSE IF last.props.redirectTo = Undefined
                         THEN ROUTES_DASHBOARD
                         ELSE last.props.redirectTo
        /\ ~ state.isAuthenticated =>
              /\ last.out.type = "Fragment"
              /\ last.out.children = last.props.children

\* a signed-in user sent back to the page they came from
C9_Witness ==
    /\ last.op = "PublicOnlyRoute"
    /\ state.isAuthenticated
    /\ ~ state.justSignedUp
    /\ last.location.state = Obj([from |-> Str("/page2")])
    /\ last.out.props.to = Str("/page2")

\* a step that may end the signed-up session: setJustSignedUp(false),
\* logout, setUser(null) or a reload
ClearsSignup ==
    \/ last'.op \in {"logout", "reload"}
    \/ last'.op = "setUser" /\ last'.args.user = Null
    \/ last'.op = "setJustSignedUp" /\ last'.args.value = FALSE

\* C15: a render of either guard leaves the store's state and its stored
\* snapshot as they were; and from a state with isAuthenticated and
\* justSignedUp both true, every step other than setJustSignedUp(false),
\* logout, setUser(null) and reload keeps both true, and every render of
\* PublicOnlyRoute there is the redirect to ROUTES.ONBOARDING.
C15_GuardsArePure ==
    [][ /\ last'.op \in {"ProtectedRoute", "PublicOnlyRoute"} =>
              (state' = state /\ localStorage' = localStorage)
        /\ (state.isAuthenticated /\ state.justSignedUp) =>
              /\ ~ ClearsSignup => (state'.isAuthenticated /\ state'.justSignedUp)
              /\ last'.op = "PublicOnlyRoute" =>
                    /\ last'.out.type = "Navigate"
                    /\ last'.out.props.to = ROUTES_ONBOARDING ]_vars

\* the onboarding redirect rendered in a session whose signup flag is still
\* set after a later login and the end of onboarding
C15_Witness ==
    /\ last.op = "PublicOnlyRoute"
    /\ state.isAuthenticated
    /\ state.justSignedUp
    /\ state.hasCompletedOnboarding
    /\ last.location.state = Null
    /\ last.props.redirectTo = Undefined
    /\ last.out.props.to = ROUTES_ONBOARDING

\* what each guard renders in the current state, over every property and
\* location it may be rendered with
ProtectedRenders ==
    { ProtectedRoute([children |-> Children, redirectTo |-> r], state,
                     [pathname |-> p, state |-> Null]).type :
        r \in RedirectTos, p \in Paths }

PublicOnlyRenders ==
    { PublicOnlyRoute([children |-> Children, redirectTo |-> r], state,
                      [pathname |-> ROUTES_LOGIN, state |-> ls]).type :
        r \in RedirectTos, ls \in LocationStates }

\* C20: in every reachable state and for every location and redirectTo,
\* exactly one of the two guards renders its children: ProtectedRoute does
\* exactly when PublicOnlyRoute redirects.  After logout it is
\* PublicOnlyRoute that renders its children, after login ProtectedRoute.
C20_GuardsComplementary ==
    /\ \/ ProtectedRenders = {"Fragment"} /\ PublicOnlyRenders = {"Navigate"}
       \/ ProtectedRenders = {"Navigate"} /\ PublicOnlyRenders = {"Fragment"}
    /\ last.op = "logout" => PublicOnlyRenders = {"Fragment"}
    /\ last.op = "login" => ProtectedRenders = {"Fragment"}

\* right after the logout of a signed-in user: ProtectedRoute sends to the
\* login route and PublicOnlyRoute renders its children
C20_Witness ==
    /\ last.op = "logout"
    /\ last.pre.isAuthenticated
    /\ ProtectedRoute([children |-> Children, redirectTo |-> Undefined], state,
                      [pathname |-> Str("/page1"), state |-> Null]).props.to = ROUTES_LOGIN
    /\ PublicOnlyRoute([children |-> Children, redirectTo |-> Undefined], state,
                       [pathname |-> ROUTES_LOGIN, state |-> Null]) = Fragment(Children)

-----------------------------------------------------------------------------
(* Properties of the platform service *)

\* C10: connectWithCredentials never ends by throwing; it returns a
\* ConnectionResult, and when the request fails the result is exactly
\* {platformId: the argument, status: 'error',
\*  message: 'Failed to connect. Please check your credentials.'}.
C10_ConnectWithCredentialsAbsorbs ==
    (call.op = "connectWithCredentials" /\ call.pc # "await") =>
        /\ call.pc = "returned"
        /\ DOMAIN call.completion.value.v = {"platformId", "status", "message"}
        /\ ~ call.response.ok =>
              call.completion.value =
                  Obj([ platformId |-> call.args.platformId,
                        status     |-> Str("error"),
                        message    |-> Str("Failed to connect. Please check your credentials.") ])

\* a rejected request for 'plaid'
C10_Witness ==
    /\ call.op = "connectWithCredentials"
    /\ call.pc = "returned"
    /\ ~ call.response.ok
    /\ call.args.platformId = Str("plaid")
    /\ call.completion.value.v.status = Str("error")


\* C11: connectWithApiKey never ends by throwing; when the request fails it
\* returns {platformId: the argument, status: 'error',
\* message: 'Invalid API credentials.'}, and when the request is answered
\* with a body it returns the body's platform_id, status and message as
\* platformId, status and message.
C11_ConnectWithApiKey ==
    (call.op = "connectWithApiKey" /\ call.pc # "await") =>
        /\ call.pc = "returned"
        /\ ~ call.response.ok =>
              call.completion.value =
                  Obj([ platformId |-> call.args.platformId,
                        status     |-> Str("error"),
                        message    |-> Str("Invalid API credentials.") ])
        /\ (call.response.ok /\ call.response.data # Undefined) =>
              /\ DOMAIN call.completion.value.v = {"platformId", "status", "message"}
              /\ call.completion.value.v.platformId = call.response.data.v.platform_id
              /\ call.completion.value.v.status = call.response.data.v.status
              /\ call.completion.value.v.message = call.response.data.v.message

\* a rejected request for 'wallet'
C11_Witness ==
    /\ call.op = "connectWithApiKey"
    /\ call.pc = "returned"
    /\ ~ call.response.ok
    /\ call.args.platformId = Str("wallet")
    /\ call.completion.value.v.message = Str("Invalid API credentials.")


\* C12: when its request fails, getPlatforms does not throw and returns
\* exactly one crypto entry, with id 'wallet', exactly one banks entry, with
\* id 'plaid', and no brokers.
C12_GetPlatformsFallback ==
    (call.op = "getPlatforms" /\ call.pc # "await" /\ ~ call.response.ok) =>
        /\ call.pc = "returned"
        /\ Len(call.completion.value.v.crypto.v) = 1
        /\ call.completion.value.v.crypto.v[1].v.id = Str("wallet")
        /\ Len(call.completion.value.v.banks.v) = 1
        /\ call.completion.value.v.banks.v[1].v.id = Str("plaid")
        /\ call.completion.value.v.brokers.v = <<>>

\* a fetch of the platforms that met a network error
C12_Witness ==
    /\ call.op = "getPlatforms"
    /\ call.pc = "returned"
    /\ ~ call.response.ok
    /\ call.response.error = Str("Network Error")
    /\ call.completion.log # <<>>


\* C13: disconnect and getPlaidLinkToken, whenever their request fails, end
\* with that error thrown to the caller and never with a returned value;
\* and a failure inside syncPlatform is thrown to the caller as well.
C13_FailuresPropagate ==
    (call.op \in {"disconnect", "getPlaidLinkToken", "syncPlatform"}
        /\ call.pc # "await" /\ ~ call.response.ok) =>
            /\ call.pc = "thrown"
            /\ call.completion.kind = "throw"
            /\ call.completion.error = call.response.error

\* a disconnect whose request was rejected, logged and thrown again
C13_Witness ==
    /\ call.op = "disconnect"
    /\ call.pc = "thrown"
    /\ ~ call.response.ok
    /\ call.completion.log = <<"Failed to disconnect platform:">>


\* the number of accounts under the first k items of data
RECURSIVE AccountsBefore(_, _)
AccountsBefore(data, k) ==
    IF k = 0 THEN 0
    ELSE AccountsBefore(data, k - 1) + Len(data[k].v.accounts.v)

\* C14: getConnectedPlatforms never throws; when the request is answered
\* with the list of connected platforms the result has one record per
\* account, in the backend's order (the accounts of item k follow those of
\* the items before it), with the account's id and name and the icon and
\* category of the platform it is under; when the request fails the result
\* is the empty list.
C14_ConnectedPlatformsFlattened ==
    (call.op = "getConnectedPlatforms" /\ call.pc # "await") =>
        /\ call.pc = "returned"
        /\ (call.response.ok /\ call.response.data # Undefined) =>
              LET data   == call.response.data.v
                  result == call.completion.value.v
              IN  /\ Len(result) = AccountsBefore(data, Len(data))
                  /\ \A k \in 1..Len(data) :
                       \A j \in 1..Len(data[k].v.accounts.v) :
                          result[AccountsBefore(data, k - 1) + j] =
                              Obj([ id       |-> data[k].v.accounts.v[j].v.id,
                                    name     |-> data[k].v.accounts.v[j].v.name,
                                    icon     |-> data[k].v.platform.v.icon,
                                    category |-> data[k].v.platform.v.category ])
        /\ ~ call.response.ok => call.completion.value = Arr(<<>>)

\* a platform without accounts followed by one with two accounts
C14_Witness ==
    /\ call.op = "getConnectedPlatforms"
    /\ call.pc = "returned"
    /\ call.response.ok
    /\ call.response.data # Undefined
    /\ Len(call.response.data.v) = 2
    /\ Len(call.response.data.v[1].v.accounts.v) = 0
    /\ Len(call.response.data.v[2].v.accounts.v) = 2
    /\ Len(call.completion.value.v) = 2


\* a returned platform as the Platform record the groups hold
AsPlatform(d) ==
    Obj([id |-> d.v.id, name |-> d.v.name, icon |-> d.v.icon, category |-> d.v.category])

\* the group is exactly the returned platforms at the positions idx
GroupIs(group, data, idx) ==
    /\ Len(group) = Cardinality(idx)
    /\ \A i \in idx : \E j \in DOMAIN group : group[j] = AsPlatform(data[i])
    /\ \A j \in DOMAIN group : \E i \in idx : group[j] = AsPlatform(data[i])

\* C18: getPlatforms, when its request is answered with the list of
\* platforms, returns as crypto exactly the returned platforms whose id is
\* 'wallet', or the one default wallet entry when there is none; as banks
\* exactly those whose id is 'plaid', with no default; no brokers; and no
\* other returned platform in any group.  In every outcome crypto is not
\* empty and brokers is empty.
C18_GetPlatformsGroups ==
    (call.op = "getPlatforms" /\ call.pc # "await") =>
        /\ call.pc = "returned"
        /\ call.completion.value.v.crypto.v # <<>>
        /\ call.completion.value.v.brokers.v = <<>>
        /\ (call.response.ok /\ call.response.data # Undefined) =>
              LET data    == call.response.data.v
                  crypto  == call.completion.value.v.crypto.v
                  banks   == call.completion.value.v.banks.v
                  wallets == { i \in DOMAIN data : data[i].v.id = Str("wallet") }
                  plaids  == { i \in DOMAIN data : data[i].v.id = Str("plaid") }
              IN  /\ IF wallets = {}
                     THEN crypto = << Obj([ id |-> Str("wallet"), name |-> Str("Wallet"),
                                            icon |-> Str("/wallet.svg"),
                                            category |-> Str("crypto") ]) >>
                     ELSE GroupIs(crypto, data, wallets)
                  /\ GroupIs(banks, data, plaids)
                  /\ \A i \in DOMAIN data \ (wallets \cup plaids) :
                        /\ \A j \in DOMAIN crypto : crypto[j].v.id # data[i].v.id
                        /\ \A j \in DOMAIN banks : banks[j].v.id # data[i].v.id

\* a broker and a wallet returned: the wallet alone is grouped
C18_Witness ==
    /\ call.op = "getPlatforms"
    /\ call.pc = "returned"
    /\ call.response.ok
    /\ call.response.data # Undefined
    /\ Len(call.response.data.v) = 2
    /\ call.response.data.v[1].v.id = Str("ibkr")
    /\ call.response.data.v[2].v.name = Str("MetaMask")
    /\ Len(call.completion.value.v.crypto.v) = 1
    /\ call.completion.value.v.crypto.v[1].v.name = Str("MetaMask")
    /\ call.completion.value.v.banks.v = <<>>


====
